---- MODULE Spec2Model ----
(***************************************************************************)
(* A model of thebot: the dispatch core (Bot.__init__, Bot.on_request),    *)
(* the capability registry (route, Plugin.get_callbacks), the help         *)
(* command (HelpPlugin), the namespaced store (Storage) and the periodic   *)
(* worker (ThreadedPlugin), all of src/thebot/__init__.py.                 *)
(*                                                                         *)
(* Python strings are modelled as sequences of one-character strings, so   *)
(* that concatenation (prefix + name), str.startswith and re.match are     *)
(* computed character by character.  Long names of the source are          *)
(* abbreviated to short sequences; the abbreviation is given where a name  *)
(* is introduced.                                                          *)
(***************************************************************************)
EXTENDS Integers, Sequences, FiniteSets, TLC

VARIABLES
    ctor,            \* position of Bot.__init__: "append_help", "adapters", "plugins", "done"
    plugin_classes,  \* the list Bot.__init__ iterates to load plugins
    adapter_classes, \* the list Bot.__init__ iterates to load adapters
    adapters,        \* bot.adapters
    plugins,         \* bot.plugins: a sequence of [cls, storage]
    patterns,        \* bot.patterns: a sequence of [pattern, callback]
    exiting,         \* bot.exiting
    dispatch,        \* what the last call of Bot.on_request did
    shelve,          \* the backing map of every Storage view (Storage._shelve)
    views,           \* the Storage objects: a sequence of [prefix, parent, sub]
    writer,          \* history: for each physical key, the view it was last written through
    last,            \* the last Storage operation and what it returned or raised
    plugins_arg,     \* the plugins list as the caller of Bot wrote it
    _thread,         \* ThreadedPlugin._thread: an index of threads, 0 when the attribute is not set
    _event,          \* ThreadedPlugin._event: an index of events, 0 when the attribute is not set
    events,          \* the threading.Event objects created so far: is_set() of each
    threads,         \* the threading.Thread objects running ThreadedPlugin._worker
    callers,         \* the contexts that call start_worker: position in it, its argument and,
                     \* as history, fresh: stop_worker was not called since the call began
    started,         \* history: a call of start_worker began and returned, and stop_worker
                     \* was not called since it began
    clearing,        \* the contexts that run Storage.clear: the keys still to delete
    mailbox,         \* the messages on the IMAP server: a sequence of [uid, plain, text]
    fetching,        \* the thread of the mail adapter: position in _fetch_messages, uids to go
    delivered,       \* history: the requests the mail adapter's callback accepted
    maillog          \* history: the uids for which logger.exception or logger.warning was called

vars == <<ctor, plugin_classes, adapter_classes, adapters, plugins, patterns,
          exiting, dispatch, shelve, views, writer, last,
          plugins_arg, _thread, _event, events, threads, callers, started, clearing,
          mailbox, fetching, delivered, maillog>>

botVars == <<ctor, plugin_classes, adapter_classes, adapters, plugins, patterns,
             exiting, dispatch>>

storeVars == <<shelve, views, writer, last>>

workerVars == <<_thread, _event, events, threads, callers, started>>

mailVars == <<mailbox, fetching, delivered, maillog>>

otherVars == <<plugins_arg, workerVars, clearing, mailVars>>

(***************************************************************************)
(* Bounds of the model.                                                    *)
(***************************************************************************)
\* the longest message an adapter delivers
MaxMsgLen == 2
\* the longest plugins argument of Bot (HelpPlugin not counted)
MaxPlugins == 2
\* the longest adapters argument of Bot
MaxAdapters == 1
\* the longest logical key passed to a Storage view
MaxNameLen == 1
\* the most entries the backing map holds
MaxEntries == 2
\* the most Storage views created on one backing map
MaxViews == 3
\* the most worker threads one ThreadedPlugin starts
MaxThreads == 2
\* the longest interval passed to start_worker, in ticks
MaxInterval == 2
\* the most Bots constructed from one plugins list
MaxBots == 2
\* the most messages in the mailbox of the mail adapter
MaxMails == 2
\* the longest text/plain body of a message, in characters
MaxTextLen == 2

(***************************************************************************)
(* Strings.                                                                *)
(***************************************************************************)
\* the sequences over S of length lo..hi
StringsOver(S, lo, hi) == UNION {[1..n -> S] : n \in lo..hi}

\* str.startswith
StartsWith(s, prefix) ==
    /\ Len(prefix) <= Len(s)
    /\ SubSeq(s, 1, Len(prefix)) = prefix

\* the order of one-character strings (code points)
CharRank(c) ==
    CASE c = " " -> 32 [] c = "$" -> 36 [] c = ".*" -> 46 [] c = "^" -> 94
      [] c = "a" -> 97 [] c = "b" -> 98 [] c = "c" -> 99 [] c = "d" -> 100
      [] c = "f" -> 102 [] c = "h" -> 104 [] c = "m" -> 109 [] c = "s" -> 115
      [] c = "t" -> 116 [] c = "-" -> 226 [] OTHER -> 0

\* the order of Python strings: s < t
RECURSIVE LexLess(_, _)
LexLess(s, t) ==
    IF t = <<>> THEN FALSE
    ELSE IF s = <<>> THEN TRUE
    ELSE IF s[1] # t[1] THEN CharRank(s[1]) < CharRank(t[1])
    ELSE LexLess(Tail(s), Tail(t))

(***************************************************************************)
(* Patterns and re.match.  A pattern is a sequence of atoms: a literal     *)
(* character, "^", "$", or ".*", which stands for the named group "this"   *)
(* of the source's patterns.                                               *)
(***************************************************************************)
\* the characters of a message
Chars == {"d", "f", "h", "s"}

Messages == StringsOver(Chars, 0, MaxMsgLen)

\* the atoms from position i of the pattern match the message from position j on
RECURSIVE MatchFrom(_, _, _, _)
MatchFrom(pattern, message, i, j) ==
    IF i > Len(pattern) THEN TRUE
    ELSE LET atom == pattern[i] IN
         CASE atom = "^" -> j = 1 /\ MatchFrom(pattern, message, i + 1, j)
           [] atom = "$" -> j = Len(message) + 1 /\ MatchFrom(pattern, message, i + 1, j)
           [] atom = ".*" -> \E k \in j..(Len(message) + 1) :
                                MatchFrom(pattern, message, i + 1, k)
           [] OTHER -> /\ j <= Len(message)
                       /\ message[j] = atom
                       /\ MatchFrom(pattern, message, i + 1, j + 1)

\* re.match(pattern, message) is not None: the pattern matches at the start of
\* the message and need not consume all of it
ReMatch(pattern, message) == MatchFrom(pattern, message, 1, 1)

\* what the greedy group captures when the atoms from i on are matched from j on
RECURSIVE GroupFrom(_, _, _, _)
GroupFrom(pattern, message, i, j) ==
    IF i > Len(pattern) THEN <<>>
    ELSE IF pattern[i] = ".*"
         THEN LET ends == {k \in j..(Len(message) + 1) :
                              MatchFrom(pattern, message, i + 1, k)}
                  stop == CHOOSE k \in ends : \A l \in ends : l <= k
              IN  SubSeq(message, j, stop - 1)
         ELSE IF pattern[i] \in {"^", "$"}
              THEN GroupFrom(pattern, message, i + 1, j)
              ELSE GroupFrom(pattern, message, i + 1, j + 1)

\* match.groupdict(): the value of the group "this", <<>> when there is none
GroupDict(pattern, message) == GroupFrom(pattern, message, 1, 1)

(***************************************************************************)
(* Plugin classes.  A class has a name, the module it is defined in and    *)
(* its methods in declaration order; a method has a name, the patterns of  *)
(* its route annotations as written from top to bottom, a docstring        *)
(* (<<>> for none), the value it returns and what it says to the request.  *)
(* Abbreviations: module "t" is thebot, "tb" is thebot.tests, "m" is a     *)
(* module outside the thebot package; pattern "s" is 'show me a cat',      *)
(* "f" ".*" is 'find' with its group, "^" "d" "$" is '^do$', "h" is 'help'.*)
(***************************************************************************)
\* tests.py TestPlugin
TestPlugin ==
    [name |-> "TestPlugin", module |-> <<"t", "b">>,
     methods |-> <<
        [name |-> <<"s", "h">>, routes |-> << <<"s">> >>, doc |-> <<"c">>,
         returns |-> "None", says |-> "the Cat"],
        [name |-> <<"f", "i">>, routes |-> << <<"f", ".*">> >>, doc |-> <<"m">>,
         returns |-> "None", says |-> "I found"] >>]

\* tests.py BadPlugin
BadPlugin ==
    [name |-> "BadPlugin", module |-> <<"t", "b">>,
     methods |-> <<
        [name |-> <<"d">>, routes |-> << <<"^", "d", "$">> >>, doc |-> <<>>,
         returns |-> "Hello world", says |-> "nothing"] >>]

\* a plugin of another module, with one method under two routes, both of which
\* overlap patterns of the classes above
EchoPlugin ==
    [name |-> "EchoPlugin", module |-> <<"m">>,
     methods |-> <<
        [name |-> <<"a">>, routes |-> << <<"f", "d">>, <<"d">> >>, doc |-> <<"a">>,
         returns |-> "None", says |-> "the Cat"] >>]

HelpPlugin ==
    [name |-> "HelpPlugin", module |-> <<"t">>,
     methods |-> <<
        [name |-> <<"h">>, routes |-> << <<"h">> >>, doc |-> <<"s">>,
         returns |-> "None", says |-> "help"] >>]

\* the classes a plugins argument is made of
InputPlugins == {"TestPlugin", "BadPlugin", "EchoPlugin"}

ClassOf(cls) ==
    CASE cls = "TestPlugin" -> TestPlugin
      [] cls = "BadPlugin" -> BadPlugin
      [] cls = "EchoPlugin" -> EchoPlugin
      [] cls = "HelpPlugin" -> HelpPlugin

\* the method a bound callback [cls, method] refers to
MethodOf(callback) ==
    LET ms == ClassOf(callback.cls).methods
    IN  ms[CHOOSE i \in 1..Len(ms) : ms[i].name = callback.method]

\* the lists of distinct classes passed as plugins
PluginLists ==
    {l \in StringsOver(InputPlugins, 0, MaxPlugins) :
        \A i, j \in 1..Len(l) : i # j => l[i] # l[j]}

AdapterLists == StringsOver({"TestAdapter"}, 0, MaxAdapters)

(***************************************************************************)
(* The capability registry: route and Plugin.get_callbacks.                *)
(***************************************************************************)
Reverse(s) == [i \in 1..Len(s) |-> s[Len(s) + 1 - i]]

\* route(pattern)(func): appends the pattern to func._patterns
Route(_patterns, pattern) == Append(_patterns, pattern)

\* func._patterns of a method: its annotations are applied from the bottom up
RECURSIVE ApplyRoutes(_, _)
ApplyRoutes(_patterns, annotations) ==
    IF annotations = <<>> THEN _patterns
    ELSE ApplyRoutes(Route(_patterns, Head(annotations)), Tail(annotations))

MethodPatterns(method) == ApplyRoutes(<<>>, Reverse(method.routes))

\* the names of a class in the order its body declares them
DirDeclared(cls) == ClassOf(cls).methods

\* dir(self): the names of a class in sorted order
Dir(cls) == SortSeq(ClassOf(cls).methods, LAMBDA a, b : LexLess(a.name, b.name))

\* the (pattern, value) pairs of one method
CallbacksOf(cls, method) ==
    LET ps == MethodPatterns(method)
    IN  [i \in 1..Len(ps) |->
            [pattern |-> ps[i], callback |-> [cls |-> cls, method |-> method.name]]]

RECURSIVE CallbacksFrom(_, _)
CallbacksFrom(cls, methods) ==
    IF methods = <<>> THEN <<>>
    ELSE CallbacksOf(cls, Head(methods)) \o CallbacksFrom(cls, Tail(methods))

\* Plugin.get_callbacks
GetCallbacks(cls) == CallbacksFrom(cls, Dir(cls))

(***************************************************************************)
(* Storage.  The backing map is a function from physical keys to values;   *)
(* a view is known by its prefix.                                          *)
(***************************************************************************)
\* the characters of keys and prefixes
KeyChars == {"t", "b"}

\* the logical keys passed to a view
Names == StringsOver(KeyChars, 0, MaxNameLen)

\* the values stored: None and another value
Values == {"None", "minor"}

EmptyMap == [k \in {} |-> "None"]

\* a map without the keys of gone
Without(map, gone) == [k \in (DOMAIN map) \ gone |-> map[k]]

\* a map with key set to value
With(map, key, value) == [k \in (DOMAIN map) \cup {key} |-> IF k = key THEN value ELSE map[k]]

\* self.prefix + name: the physical key of a logical key
PhysicalKey(prefix, name) == prefix \o name

\* Storage.get: the value, or the default None of the backing map's get
StorageGet(_shelve, prefix, name) ==
    IF PhysicalKey(prefix, name) \in DOMAIN _shelve
    THEN [raised |-> "None", value |-> _shelve[PhysicalKey(prefix, name)]]
    ELSE [raised |-> "None", value |-> "None"]

\* __getitem__ through the backing map's get
StorageGetItemOrNone(_shelve, prefix, name) ==
    IF PhysicalKey(prefix, name) \in DOMAIN _shelve
    THEN [raised |-> "None", value |-> _shelve[PhysicalKey(prefix, name)]]
    ELSE [raised |-> "None", value |-> "None"]

\* Storage.__getitem__: the value, or KeyError from the backing map
StorageGetItem(_shelve, prefix, name) ==
    IF PhysicalKey(prefix, name) \in DOMAIN _shelve
    THEN [raised |-> "None", value |-> _shelve[PhysicalKey(prefix, name)]]
    ELSE [raised |-> "KeyError", value |-> "None"]

\* Storage.__setitem__: the backing map afterwards
StorageSetItem(_shelve, prefix, name, value) ==
    With(_shelve, PhysicalKey(prefix, name), value)

\* keys without the filter: every key of the backing map
StorageKeysAll(_shelve, prefix) == DOMAIN _shelve

\* a physical key without the leading Len(prefix) characters
StripPrefix(key, prefix) == SubSeq(key, Len(prefix) + 1, Len(key))

\* keys that reports logical names: the filter followed by stripping the prefix
StorageKeysStripped(_shelve, prefix) ==
    {StripPrefix(k, prefix) : k \in {x \in DOMAIN _shelve : StartsWith(x, prefix)}}

\* Storage.keys: the physical keys that start with the prefix
StorageKeys(_shelve, prefix) == {k \in DOMAIN _shelve : StartsWith(k, prefix)}

\* clear of the backing map itself
StorageClearAll(_shelve, prefix) == EmptyMap

\* Storage.clear: the backing map afterwards
StorageClear(_shelve, prefix) == Without(_shelve, StorageKeys(_shelve, prefix))

\* Storage.with_prefix: the prefix of the view returned by a view with prefix self
StorageWithPrefix(self, prefix) == prefix

\* Storage.__init__ with the default prefix
RootView == [prefix |-> <<>>, parent |-> 0, sub |-> <<>>]

\* the view views[parent].with_prefix(sub) returns
SubView(vs, parent, sub) ==
    [prefix |-> StorageWithPrefix(vs[parent].prefix, sub), parent |-> parent, sub |-> sub]

\* the prefixes passed to with_prefix ('first:' and 'second:' of the tests are
\* "t" and "b"; "tb" begins with "t" as thebot.tests begins with thebot)
Prefixes == {<<"t">>, <<"b">>, <<"t", "b">>}

\* a Storage operation: the view and arguments it was called with, the error it
\* raised, the value it returned and the keys it listed
Op(op, view, name, raised, value, keys) ==
    [op |-> op, view |-> view, name |-> name, raised |-> raised, value |-> value,
     keys |-> keys]

NoOp == Op("none", 0, <<>>, "None", "None", {})

(***************************************************************************)
(* Requests, responses and handlers.                                       *)
(***************************************************************************)
\* the object EXIT; a request is told from it by identity
EXIT == [id |-> "EXIT", message |-> <<>>]

\* Request(message)
Request(message) == [id |-> "Request", message |-> message]

Requests == {EXIT} \cup {Request(m) : m \in Messages}

\* a response is a text with one place {0} and what fills it
Response(text, arg) == [text |-> text, arg |-> arg]

\* one line of HelpPlugin.help ("-" stands for the dash)
HelpLine(binding) ==
    LET docstring == MethodOf(binding.callback).doc
    IN  IF docstring # <<>>
        THEN <<" ", " ">> \o binding.pattern \o <<" ", "-", " ">> \o docstring
        ELSE <<" ", " ">> \o binding.pattern

RECURSIVE JoinLines(_)
JoinLines(lines) ==
    IF lines = <<>> THEN <<>>
    ELSE <<"\n">> \o Head(lines) \o JoinLines(Tail(lines))

\* help without lines.sort(): the lines in the order of bot.patterns
HelpTextUnsorted(_patterns) ==
    LET lines == [i \in 1..Len(_patterns) |-> HelpLine(_patterns[i])]
    IN  Response("I support following commands:{0}", JoinLines(lines))

\* HelpPlugin.help: the header and then the sorted lines
HelpText(_patterns) ==
    LET lines == [i \in 1..Len(_patterns) |-> HelpLine(_patterns[i])]
    IN  Response("I support following commands:{0}", JoinLines(SortSeq(lines, LexLess)))

\* callback(request, **groups): the value returned and the responses made
Call(callback, message, group, _patterns) ==
    LET method == MethodOf(callback)
    IN  [returns |-> method.returns,
         responses |->
            CASE method.says = "the Cat" -> <<Response("the Cat", <<>>)>>
              [] method.says = "I found" -> <<Response("I found {0}", group)>>
              [] method.says = "help" -> <<HelpText(_patterns)>>
              [] OTHER -> <<>>]

(***************************************************************************)
(* Bot.on_request.                                                         *)
(***************************************************************************)
NoDispatch == [request |-> [id |-> "none", message |-> <<>>], invoked |-> <<>>,
               responses |-> <<>>, raised |-> "None"]

\* the loop without its break: every matching binding is called
RECURSIVE RouteFromNoBreak(_, _, _)
RouteFromNoBreak(_patterns, message, i) ==
    IF i > Len(_patterns)
    THEN [invoked |-> <<>>, responses |-> <<>>, raised |-> "None"]
    ELSE IF ReMatch(_patterns[i].pattern, message)
         THEN LET result == Call(_patterns[i].callback, message,
                                 GroupDict(_patterns[i].pattern, message), _patterns)
                  rest == RouteFromNoBreak(_patterns, message, i + 1)
              IN  [invoked |-> <<i>> \o rest.invoked,
                   responses |-> result.responses \o rest.responses,
                   raised |-> IF result.returns # "None" THEN "RuntimeError"
                              ELSE rest.raised]
         ELSE RouteFromNoBreak(_patterns, message, i + 1)

\* the loop with its else clause run after a match too
RECURSIVE RouteFromElseAlways(_, _, _)
RouteFromElseAlways(_patterns, message, i) ==
    IF i > Len(_patterns)
    THEN [invoked |-> <<>>,
          responses |-> <<Response("I don't know command \"{0}\".", message)>>,
          raised |-> "None"]
    ELSE IF ReMatch(_patterns[i].pattern, message)
         THEN LET result == Call(_patterns[i].callback, message,
                                 GroupDict(_patterns[i].pattern, message), _patterns)
              IN  [invoked |-> <<i>>,
                   responses |-> result.responses \o
                                 <<Response("I don't know command \"{0}\".", message)>>,
                   raised |-> "None"]
         ELSE RouteFromElseAlways(_patterns, message, i + 1)

\* the loop answering an unknown command without the message
RECURSIVE RouteFromNoEcho(_, _, _)
RouteFromNoEcho(_patterns, message, i) ==
    IF i > Len(_patterns)
    THEN [invoked |-> <<>>,
          responses |-> <<Response("I don't know command \"{0}\".", <<>>)>>,
          raised |-> "None"]
    ELSE IF ReMatch(_patterns[i].pattern, message)
         THEN LET result == Call(_patterns[i].callback, message,
                                 GroupDict(_patterns[i].pattern, message), _patterns)
              IN  [invoked |-> <<i>>,
                   responses |-> result.responses,
                   raised |-> IF result.returns # "None" THEN "RuntimeError" ELSE "None"]
         ELSE RouteFromNoEcho(_patterns, message, i + 1)

\* the for loop of Bot.on_request from binding i on: the bindings whose callback
\* was called, the responses made and the error raised
RECURSIVE RouteFrom(_, _, _)
RouteFrom(_patterns, message, i) ==
    IF i > Len(_patterns)
    THEN [invoked |-> <<>>,
          responses |-> <<Response("I don't know command \"{0}\".", message)>>,
          raised |-> "None"]
    ELSE IF ReMatch(_patterns[i].pattern, message)
         THEN LET result == Call(_patterns[i].callback, message,
                                 GroupDict(_patterns[i].pattern, message), _patterns)
              IN  [invoked |-> <<i>>,
                   responses |-> result.responses,
                   raised |-> IF result.returns # "None" THEN "RuntimeError" ELSE "None"]
         ELSE RouteFrom(_patterns, message, i + 1)

\* EXIT told by what a request says
IsExitByMessage(request) == request.message = EXIT.message

\* request is EXIT
IsExit(request) == request.id = EXIT.id

\* a call of on_request by an adapter: the callback is handed to the adapter
\* when it is constructed, and start() may begin background activity that
\* delivers requests from then on
OnRequest(request) ==
    /\ Len(adapters) > 0
    /\ IF IsExit(request)
       THEN /\ exiting' = TRUE
            /\ dispatch' = [NoDispatch EXCEPT !.request = request]
       ELSE /\ exiting' = exiting
            /\ dispatch' = [request |-> request] @@ RouteFrom(patterns, request.message, 1)
    /\ UNCHANGED <<ctor, plugin_classes, adapter_classes, adapters, plugins, patterns>>
    /\ UNCHANGED storeVars
    /\ UNCHANGED otherVars

(***************************************************************************)
(* The objects that exist before anything runs.                            *)
(***************************************************************************)
\* the contexts that call into one object at the same time: two dispatches
Contexts == {1, 2}

\* a threading.Thread that has not been created
Unborn ==
    [pc |-> "unborn", interval |-> 0, countdown |-> 0, since |-> -1, gap |-> -1,
     asked |-> FALSE, failed |-> FALSE, stops |-> 0]

\* a context that is not inside start_worker
IdleCaller == [pc |-> "idle", interval |-> 0, fresh |-> FALSE]

\* a ThreadedPlugin right after construction: no _thread, no _event
WorkerIdle ==
    /\ _thread = 0
    /\ _event = 0
    /\ events = <<>>
    /\ threads = [t \in 1..MaxThreads |-> Unborn]
    /\ callers = [c \in Contexts |-> IdleCaller]
    /\ started = FALSE

\* a context that is not inside Storage.clear
NotClearing == [pc |-> "idle", view |-> 0, todo |-> {}, raised |-> "None"]

\* no context is inside Storage.clear
ClearIdle == clearing = [c \in Contexts |-> NotClearing]

\* the thread of the mail adapter before Adapter.start
NotFetching == [pc |-> "unborn", uids |-> <<>>]

\* no mail adapter: no mailbox, no thread
MailIdle ==
    /\ mailbox = <<>>
    /\ fetching = NotFetching
    /\ delivered = <<>>
    /\ maillog = {}

(***************************************************************************)
(* Bot.__init__.                                                           *)
(***************************************************************************)
InitBot ==
    /\ ctor = "prepare"
    /\ plugin_classes \in PluginLists
    /\ adapter_classes \in AdapterLists
    /\ adapters = <<>>
    /\ plugins = <<>>
    /\ patterns = <<>>
    /\ exiting = FALSE
    /\ dispatch = NoDispatch
    /\ shelve = EmptyMap
    /\ views = <<>>
    /\ writer = EmptyMap
    /\ last = NoOp
    /\ plugins_arg = plugin_classes
    /\ WorkerIdle
    /\ ClearIdle
    /\ MailIdle

\* plugin_classes.append(HelpPlugin) and self.storage = Storage(...)
BotInitPrepare ==
    /\ ctor = "prepare"
    /\ plugin_classes' = Append(plugin_classes, "HelpPlugin")
    /\ views' = <<RootView>>
    /\ ctor' = "load"
    /\ UNCHANGED <<adapter_classes, adapters, plugins, patterns, exiting, dispatch>>
    /\ UNCHANGED <<shelve, writer, last>>
    /\ UNCHANGED otherVars

\* one turn of the loop over adapter_classes
BotInitAdapter ==
    /\ ctor = "load"
    /\ Len(adapters) < Len(adapter_classes)
    /\ adapters' = Append(adapters, adapter_classes[Len(adapters) + 1])
    /\ UNCHANGED <<ctor, plugin_classes, adapter_classes, plugins, patterns, exiting, dispatch>>
    /\ UNCHANGED storeVars
    /\ UNCHANGED otherVars

\* one turn of the loop over plugin_classes: Plugin.__init__, get_callbacks
BotInitPlugin ==
    /\ ctor = "load"
    /\ Len(adapters) = Len(adapter_classes)
    /\ Len(plugins) < Len(plugin_classes)
    /\ LET cls == plugin_classes[Len(plugins) + 1]
       IN  /\ views' = Append(views, SubView(views, 1, ClassOf(cls).module))
           /\ plugins' = Append(plugins, [cls |-> cls, storage |-> Len(views) + 1])
           /\ patterns' = patterns \o GetCallbacks(cls)
    /\ ctor' = IF Len(plugins) + 1 = Len(plugin_classes) THEN "done" ELSE "load"
    /\ UNCHANGED <<plugin_classes, adapter_classes, adapters, exiting, dispatch>>
    /\ UNCHANGED <<shelve, writer, last>>
    /\ UNCHANGED otherVars

Next ==
    \/ BotInitPrepare
    \/ BotInitAdapter
    \/ BotInitPlugin
    \/ \E request \in Requests : OnRequest(request)

Spec == InitBot /\ [][Next]_vars

(***************************************************************************)
(* The dispatch core: properties of Bot.on_request.                        *)
(***************************************************************************)
Min(S) == CHOOSE x \in S : \A y \in S : x <= y

\* the bindings of bot.patterns whose pattern matches the message
Matching(message) == {i \in 1..Len(patterns) : ReMatch(patterns[i].pattern, message)}

\* a step is a call of on_request with a request that is not EXIT
Dispatched == dispatch' # dispatch /\ dispatch'.request.id = "Request"

UnknownCommand(message) == Response("I don't know command \"{0}\".", message)

\* C1: a request other than EXIT has at most one handler called, and when some
\* pattern matches the message it is the handler of the earliest matching
\* binding of bot.patterns, whatever bindings follow it.
C1_FirstMatchWins ==
    [][Dispatched =>
         LET matching == Matching(dispatch'.request.message)
         IN  /\ Len(dispatch'.invoked) <= 1
             /\ matching # {} => dispatch'.invoked = <<Min(matching)>>]_vars

\* C1 witness: the bot is loaded, two bindings match the message and the
\* earlier one was called.
C1_Witness ==
    /\ ctor = "done"
    /\ dispatch.request.id = "Request"
    /\ \E i, j \in Matching(dispatch.request.message) :
          /\ i < j
          /\ patterns[i].callback # patterns[j].callback
          /\ dispatch.invoked = <<i>>

\* C2: a request whose message matches no pattern of bot.patterns has no
\* handler called, is answered once, with the unknown-command text around the
\* message, and raises nothing.
C2_UnknownCommand ==
    [][(Dispatched /\ Matching(dispatch'.request.message) = {}) =>
         /\ dispatch'.invoked = <<>>
         /\ dispatch'.responses = <<UnknownCommand(dispatch'.request.message)>>
         /\ dispatch'.raised = "None"]_vars

\* C2 witness: the loaded bot answered a message of its own that no pattern
\* matches.
C2_Witness ==
    /\ ctor = "done"
    /\ Len(patterns) > 1
    /\ dispatch.request.id = "Request"
    /\ dispatch.request.message # <<>>
    /\ Matching(dispatch.request.message) = {}
    /\ dispatch.responses = <<UnknownCommand(dispatch.request.message)>>

\* C3: when the handler of the first matching binding returns a value other
\* than None, on_request raises RuntimeError, no other handler was called and
\* no unknown-command response was made.
C3_ReturnValueRaises ==
    [][(/\ Dispatched
        /\ Matching(dispatch'.request.message) # {}
        /\ MethodOf(patterns[Min(Matching(dispatch'.request.message))].callback).returns
              # "None") =>
         /\ dispatch'.raised = "RuntimeError"
         /\ dispatch'.invoked = <<Min(Matching(dispatch'.request.message))>>
         /\ \A k \in 1..Len(dispatch'.responses) :
               dispatch'.responses[k] # UnknownCommand(dispatch'.request.message)]_vars

\* C3 witness: on_request raised although a later binding matches the message
\* too.
C3_Witness ==
    /\ dispatch.raised = "RuntimeError"
    /\ Len(dispatch.invoked) = 1
    /\ \E j \in Matching(dispatch.request.message) : j > dispatch.invoked[1]

\* C4: dispatching EXIT sets bot.exiting, calls no handler and makes no
\* response; a request that is not the object EXIT leaves bot.exiting as it is
\* and is routed: a handler is called or the unknown-command response is made.
C4_ExitByIdentity ==
    [][dispatch' # dispatch =>
         IF dispatch'.request = EXIT
         THEN /\ exiting'
              /\ dispatch'.invoked = <<>>
              /\ dispatch'.responses = <<>>
              /\ dispatch'.raised = "None"
         ELSE /\ exiting' = exiting
              /\ \/ dispatch'.invoked # <<>>
                 \/ dispatch'.responses =
                       <<UnknownCommand(dispatch'.request.message)>>]_vars

\* C4 witness: EXIT was dispatched to a loaded bot and the flag is set.
C4_Witness ==
    /\ ctor = "done"
    /\ dispatch.request = EXIT
    /\ exiting

\* C4, the other case: a request with an empty message was routed and
\* the flag is not set.
C4_WitnessRouted ==
    /\ dispatch.request = Request(<<>>)
    /\ ~exiting

(***************************************************************************)
(* The operations of Storage, called on the view views[v].                 *)
(***************************************************************************)
\* storage.with_prefix(prefix)
WithPrefix(v, prefix) ==
    /\ Len(views) < MaxViews
    /\ views' = Append(views, SubView(views, v, prefix))
    /\ last' = Op("with_prefix", v, prefix, "None", "None", {})
    /\ UNCHANGED <<shelve, writer>>
    /\ UNCHANGED botVars
    /\ UNCHANGED otherVars

\* storage[name] = value
SetItem(v, name, value) ==
    LET key == PhysicalKey(views[v].prefix, name)
    IN  /\ key \in DOMAIN shelve \/ Cardinality(DOMAIN shelve) < MaxEntries
        /\ shelve' = StorageSetItem(shelve, views[v].prefix, name, value)
        /\ writer' = With(writer, key, v)
        /\ last' = Op("setitem", v, name, "None", value, {})
        /\ UNCHANGED views
        /\ UNCHANGED botVars
        /\ UNCHANGED otherVars

\* storage[name]
GetItem(v, name) ==
    LET got == StorageGetItem(shelve, views[v].prefix, name)
    IN  /\ last' = Op("getitem", v, name, got.raised, got.value, {})
        /\ UNCHANGED <<shelve, views, writer>>
        /\ UNCHANGED botVars
        /\ UNCHANGED otherVars

\* storage.get(name)
Get(v, name) ==
    LET got == StorageGet(shelve, views[v].prefix, name)
    IN  /\ last' = Op("get", v, name, got.raised, got.value, {})
        /\ UNCHANGED <<shelve, views, writer>>
        /\ UNCHANGED botVars
        /\ UNCHANGED otherVars

\* storage.keys()
Keys(v) ==
    /\ last' = Op("keys", v, <<>>, "None", "None", StorageKeys(shelve, views[v].prefix))
    /\ UNCHANGED <<shelve, views, writer>>
    /\ UNCHANGED botVars
    /\ UNCHANGED otherVars

\* storage.clear()
Clear(v) ==
    /\ shelve' = StorageClear(shelve, views[v].prefix)
    /\ writer' = Without(writer, DOMAIN shelve \ DOMAIN shelve')
    /\ last' = Op("clear", v, <<>>, "None", "None", StorageKeys(shelve, views[v].prefix))
    /\ UNCHANGED views
    /\ UNCHANGED botVars
    /\ UNCHANGED otherVars

\* del storage[name]: Storage defines no __delitem__, so the statement raises
\* TypeError and the backing map is left as it is
DelItem(v, name) ==
    /\ last' = Op("delitem", v, name, "TypeError", "None", {})
    /\ UNCHANGED <<shelve, views, writer>>
    /\ UNCHANGED botVars
    /\ UNCHANGED otherVars

\* a Storage of its own, as the tests construct it
InitStorage ==
    /\ ctor = "none"
    /\ plugin_classes = <<>>
    /\ adapter_classes = <<>>
    /\ adapters = <<>>
    /\ plugins = <<>>
    /\ patterns = <<>>
    /\ exiting = FALSE
    /\ dispatch = NoDispatch
    /\ shelve = EmptyMap
    /\ views = <<RootView>>
    /\ writer = EmptyMap
    /\ last = NoOp
    /\ plugins_arg = <<>>
    /\ WorkerIdle
    /\ ClearIdle
    /\ MailIdle

NextStorage ==
    \/ \E v \in 1..Len(views), prefix \in Prefixes : WithPrefix(v, prefix)
    \/ \E v \in 1..Len(views), name \in Names, value \in Values : SetItem(v, name, value)
    \/ \E v \in 1..Len(views), name \in Names : GetItem(v, name)
    \/ \E v \in 1..Len(views), name \in Names : Get(v, name)
    \/ \E v \in 1..Len(views) : Keys(v)
    \/ \E v \in 1..Len(views) : Clear(v)
    \/ \E v \in 1..Len(views), name \in Names : DelItem(v, name)

SpecStorage == InitStorage /\ [][NextStorage]_vars

(***************************************************************************)
(* The namespaced store: properties of Storage.                            *)
(***************************************************************************)
\* neither prefix is a leading substring of the other
Incomparable(p, q) == ~StartsWith(p, q) /\ ~StartsWith(q, p)

\* the prefix of the view a key was written through
WriterPrefix(key) == views[writer[key]].prefix

\* the physical key of the last operation
LastKey == PhysicalKey(views[last.view].prefix, last.name)

\* C5 as claimed: two views with distinct prefixes never see each other's keys,
\* neither through keys() nor through a read under any logical key.
C5_DistinctPrefixes ==
    \A key \in DOMAIN shelve, w \in 1..Len(views) :
        WriterPrefix(key) # views[w].prefix =>
            /\ key \notin StorageKeys(shelve, views[w].prefix)
            /\ \A name \in Names :
                  PhysicalKey(views[w].prefix, name) # key

\* C5: when neither of two prefixes is a leading substring of the other, a key
\* written through a view with the one is not among keys() of a view with the
\* other and is read under no logical key through it; through every view with
\* the same prefix the key is read, under the logical key it was written with,
\* and keys() of a view whose prefix begins the writing view's prefix lists it.
C5_Isolation ==
    \A key \in DOMAIN shelve, w \in 1..Len(views) :
        /\ Incomparable(WriterPrefix(key), views[w].prefix) =>
              /\ key \notin StorageKeys(shelve, views[w].prefix)
              /\ \A name \in Names :
                    /\ PhysicalKey(views[w].prefix, name) # key
                    /\ StorageGetItem(shelve, views[w].prefix, name).raised = "None" =>
                          PhysicalKey(views[w].prefix, name) \in DOMAIN shelve \ {key}
        /\ StartsWith(WriterPrefix(key), views[w].prefix) =>
              key \in StorageKeys(shelve, views[w].prefix)
        /\ WriterPrefix(key) = views[w].prefix =>
              /\ \E name \in Names :
                    /\ PhysicalKey(WriterPrefix(key), name) = key
                    /\ StorageGetItem(shelve, views[w].prefix, name) =
                          [raised |-> "None", value |-> shelve[key]]
                    /\ StorageGet(shelve, views[w].prefix, name) =
                          [raised |-> "None", value |-> shelve[key]]

\* C5 witness: keys() was called on a view and left out a key that is in the
\* backing map, written through a view with an unrelated prefix, while it
\* listed a key of its own.
C5_Witness ==
    /\ last.op = "keys"
    /\ last.keys # {}
    /\ \E key \in DOMAIN shelve :
          /\ Incomparable(WriterPrefix(key), views[last.view].prefix)
          /\ key \notin last.keys

\* C5, the case of equal prefixes: a key written through one view was read
\* through a second view with the same prefix
C5_WitnessSamePrefix ==
    /\ last.op = "getitem"
    /\ last.raised = "None"
    /\ LastKey \in DOMAIN writer
    /\ writer[LastKey] # last.view
    /\ WriterPrefix(LastKey) = views[last.view].prefix

\* a step is a call of clear()
Cleared == last' # last /\ last'.op = "clear"

\* C6 as claimed: clear() on a view with prefix P deletes the keys written
\* through views with prefix P and leaves the keys written through views with
\* any other prefix.
C6_ClearOnlyOwnPrefix ==
    [][Cleared =>
         \A key \in DOMAIN shelve :
            IF WriterPrefix(key) = views[last'.view].prefix
            THEN key \notin DOMAIN shelve'
            ELSE key \in DOMAIN shelve' /\ shelve'[key] = shelve[key]]_vars

\* C6: clear() on a view with prefix P deletes exactly the physical keys that
\* begin with P: every key written through a view with prefix P, and no key
\* written through a view whose prefix neither begins with P nor is a leading
\* substring of P; the keys it leaves keep their values.
C6_ClearByPrefix ==
    [][Cleared =>
         /\ DOMAIN shelve' =
               {key \in DOMAIN shelve : ~StartsWith(key, views[last'.view].prefix)}
         /\ \A key \in DOMAIN shelve' : shelve'[key] = shelve[key]
         /\ \A key \in DOMAIN shelve :
               /\ WriterPrefix(key) = views[last'.view].prefix =>
                     key \notin DOMAIN shelve'
               /\ Incomparable(WriterPrefix(key), views[last'.view].prefix) =>
                     key \in DOMAIN shelve']_vars

\* C6 witness: clear() deleted a key and a key of a sibling namespace is still
\* in the backing map.
C6_Witness ==
    /\ last.op = "clear"
    /\ last.keys # {}
    /\ \E key \in DOMAIN shelve :
          Incomparable(WriterPrefix(key), views[last.view].prefix)

\* C8 as claimed: what either read gives for a key that is not present differs
\* from what it gives for a key whose stored value is None.
C8_BothReadsSignal ==
    (last.op \in {"getitem", "get"} /\ LastKey \notin DOMAIN shelve) =>
        <<last.raised, last.value>> # <<"None", "None">>

\* C8: storage[key] raises KeyError exactly when the key is not present, so a
\* stored None is told from no key; storage.get(key) raises nothing and
\* returns None when the key is not present, as it does for a stored None.
C8_NotFound ==
    /\ last.op = "getitem" =>
          IF LastKey \in DOMAIN shelve
          THEN last.raised = "None" /\ last.value = shelve[LastKey]
          ELSE last.raised = "KeyError"
    /\ last.op = "get" =>
          /\ last.raised = "None"
          /\ last.value = IF LastKey \in DOMAIN shelve THEN shelve[LastKey] ELSE "None"

\* C8 witness: storage[key] raised KeyError while a None is stored under
\* another key.
C8_Witness ==
    /\ last.op = "getitem"
    /\ last.raised = "KeyError"
    /\ \E key \in DOMAIN shelve : shelve[key] = "None"

\* C9: after storage[K] = v and then del storage[K] on the same view, the
\* physical key is not in the backing map and every other key is as it was.
C9_Delete ==
    [][(/\ last.op = "setitem"
        /\ last'.op = "delitem"
        /\ last'.view = last.view
        /\ last'.name = last.name) =>
         /\ PhysicalKey(views[last.view].prefix, last.name) \notin DOMAIN shelve'
         /\ PhysicalKey(views[last.view].prefix, last.name)
               \notin StorageKeys(shelve', views[last.view].prefix)
         /\ \A key \in DOMAIN shelve \ {PhysicalKey(views[last.view].prefix, last.name)} :
               key \in DOMAIN shelve' /\ shelve'[key] = shelve[key]]_vars

\* C10: the view returned by with_prefix(S) on a view with prefix P has the
\* prefix P followed by S, and a key K set through it is stored under P+S+K.
C10_PrefixComposes ==
    /\ \A v \in 1..Len(views) :
          views[v].parent # 0 =>
              views[v].prefix = views[views[v].parent].prefix \o views[v].sub
    /\ (last.op = "setitem" /\ views[last.view].parent # 0) =>
          (views[views[last.view].parent].prefix \o views[last.view].sub \o last.name)
              \in DOMAIN shelve

(***************************************************************************)
(* The plugins of one Bot and their storage views.                         *)
(***************************************************************************)
\* Bot(adapters=[], plugins=...)
InitPlugins ==
    /\ InitBot
    /\ adapter_classes = <<>>

NextPlugins ==
    \/ BotInitPrepare
    \/ BotInitPlugin
    \/ \E v \in 1..Len(views), name \in Names, value \in Values : SetItem(v, name, value)
    \/ \E v \in 1..Len(views), name \in Names : GetItem(v, name)
    \/ \E v \in 1..Len(views) : Keys(v)
    \/ \E v \in 1..Len(views) : Clear(v)

SpecPlugins == InitPlugins /\ [][NextPlugins]_vars

\* the prefix of the storage of the plugin bot.plugins[p]
PluginPrefix(p) == views[plugins[p].storage].prefix

\* C7: of two plugins of one Bot, a key set through the storage of the one is
\* not among the other's storage.keys(), is read under no logical key through
\* the other's storage and is not removed by the other's storage.clear().
C7_PluginIsolation ==
    \A p, q \in 1..Len(plugins) :
        p # q =>
            \A key \in DOMAIN shelve :
                writer[key] = plugins[p].storage =>
                    /\ key \notin StorageKeys(shelve, PluginPrefix(q))
                    /\ \A name \in Names : PhysicalKey(PluginPrefix(q), name) # key
                    /\ key \in DOMAIN StorageClear(shelve, PluginPrefix(q))
                    /\ (last.op = "keys" /\ last.view = plugins[q].storage) =>
                          key \notin last.keys

(***************************************************************************)
(* What keys() returns: logical or physical keys.                          *)
(***************************************************************************)
\* C11 as claimed: keys() of a view with prefix P returns logical keys, the
\* prefix stripped: after set(K, v) it contains K and every key it returns is
\* read back by [] on the same view.
C11_KeysStripped ==
    /\ last.op = "setitem" =>
          last.name \in StorageKeys(shelve, views[last.view].prefix)
    /\ last.op = "keys" =>
          \A k \in last.keys :
              StorageGetItem(shelve, views[last.view].prefix, k).raised = "None"

\* C11: keys() of a view with prefix P returns physical keys, the prefix
\* included: after set(K, v) it contains P+K, and every key k it returns
\* starts with P, is read through the root view as k and through the same
\* view only as k without its leading P.
C11_KeysPhysical ==
    /\ last.op = "setitem" =>
          PhysicalKey(views[last.view].prefix, last.name)
              \in StorageKeys(shelve, views[last.view].prefix)
    /\ last.op = "keys" =>
          \A k \in last.keys :
              /\ k \in DOMAIN shelve
              /\ StartsWith(k, views[last.view].prefix)
              /\ StorageGetItem(shelve, <<>>, k) =
                     [raised |-> "None", value |-> shelve[k]]
              /\ StorageGetItem(shelve, views[last.view].prefix,
                                StripPrefix(k, views[last.view].prefix)) =
                     [raised |-> "None", value |-> shelve[k]]

\* keys() of a prefixed view returned a key that [] on the same view does not find
C11_Witness ==
    /\ last.op = "keys"
    /\ views[last.view].prefix # <<>>
    /\ \E k \in last.keys :
          StorageGetItem(shelve, views[last.view].prefix, k).raised = "KeyError"

(***************************************************************************)
(* ThreadedPlugin: start_worker, stop_worker and the loop of _worker.      *)
(* start_worker is three steps, so that two contexts can be inside it at   *)
(* the same time; a thread is at "begin" (before the loop), "check" (the   *)
(* while condition), "job" (inside do_job), "sleep" (inside time.sleep),   *)
(* "on_stop" (after the loop) or "dead".  The history fields of a thread:  *)
(* since counts the sleeps since do_job was last entered; gap is, while    *)
(* do_job runs, the value since had when it was entered; asked says that   *)
(* stop_worker was called while the thread was alive, failed that the last *)
(* do_job raised; stops counts the runs of on_stop.                        *)
(***************************************************************************)
\* the argument interval of start_worker
Intervals == 1..MaxInterval

\* threading.Thread.is_alive
IsAlive(thread) == thread.pc \in {"begin", "check", "job", "sleep", "on_stop"}

\* the test of start_worker: thread is not None and thread.is_alive()
AlreadyRunning == _thread # 0 /\ IsAlive(threads[_thread])

\* the threads created so far
Created == {t \in 1..MaxThreads : threads[t].pc # "unborn"}

\* the contexts inside start_worker, past its test
Starting == {c \in Contexts : callers[c].pc # "idle"}

\* the thread that threading.Thread(target=self._worker, ...).start() makes
Started(interval) == [Unborn EXCEPT !.pc = "begin", !.interval = interval]

\* start_worker(interval) up to its test: return at once or go on
StartWorkerTest(c, interval) ==
    /\ callers[c].pc = "idle"
    /\ AlreadyRunning \/ Cardinality(Created) + Cardinality(Starting) < MaxThreads
    /\ callers' = [callers EXCEPT ![c] =
                      IF AlreadyRunning
                      THEN IdleCaller
                      ELSE [pc |-> "event", interval |-> interval, fresh |-> TRUE]]
    /\ started' = (AlreadyRunning \/ started)
    /\ UNCHANGED <<_thread, _event, events, threads>>
    /\ UNCHANGED <<botVars, storeVars, plugins_arg, clearing, mailVars>>

\* self._event = threading.Event()
StartWorkerEvent(c) ==
    /\ callers[c].pc = "event"
    /\ events' = Append(events, FALSE)
    /\ _event' = Len(events) + 1
    /\ callers' = [callers EXCEPT ![c].pc = "thread"]
    /\ UNCHANGED <<_thread, threads, started>>
    /\ UNCHANGED <<botVars, storeVars, plugins_arg, clearing, mailVars>>

\* self._thread = threading.Thread(...); daemon = True; start()
StartWorkerThread(c) ==
    /\ callers[c].pc = "thread"
    /\ threads' = [threads EXCEPT ![Cardinality(Created) + 1] = Started(callers[c].interval)]
    /\ _thread' = Cardinality(Created) + 1
    /\ callers' = [callers EXCEPT ![c] = IdleCaller]
    /\ started' = (callers[c].fresh \/ started)
    /\ UNCHANGED <<_event, events>>
    /\ UNCHANGED <<botVars, storeVars, plugins_arg, clearing, mailVars>>

\* stop_worker(): set the event self._event names now, if there is one
StopWorker ==
    /\ IF _event # 0
       THEN /\ events' = [events EXCEPT ![_event] = TRUE]
            /\ threads' = [t \in 1..MaxThreads |->
                              IF IsAlive(threads[t])
                              THEN [threads[t] EXCEPT !.asked = TRUE]
                              ELSE threads[t]]
       ELSE UNCHANGED <<events, threads>>
    /\ started' = FALSE
    /\ callers' = [c \in Contexts |-> [callers[c] EXCEPT !.fresh = FALSE]]
    /\ UNCHANGED <<_thread, _event>>
    /\ UNCHANGED <<botVars, storeVars, plugins_arg, clearing, mailVars>>

\* do_job ended by an exception that nothing catches: the thread is over
AfterJobUncaught(thread, raised) ==
    IF raised
    THEN [thread EXCEPT !.pc = "dead", !.failed = TRUE]
    ELSE [thread EXCEPT !.pc = "sleep", !.countdown = thread.interval, !.failed = FALSE]

\* the try statement of the loop and the line after it: an exception of
\* do_job is logged, then countdown = interval
AfterJob(thread, raised) ==
    [thread EXCEPT !.pc = "sleep", !.countdown = thread.interval, !.failed = raised,
                   !.gap = -1]

\* the while condition and the branch on countdown
LoopTest(thread, is_set) ==
    IF is_set
    THEN [thread EXCEPT !.pc = "on_stop"]
    ELSE IF thread.countdown = 0
         THEN [thread EXCEPT !.pc = "job", !.gap = thread.since, !.since = 0]
         ELSE [thread EXCEPT !.pc = "sleep", !.countdown = thread.countdown - 1]

\* _worker before the loop: countdown = 0, on_start()
WorkerBegin(t) ==
    /\ threads[t].pc = "begin"
    /\ threads' = [threads EXCEPT ![t].pc = "check", ![t].countdown = 0]
    /\ UNCHANGED <<_thread, _event, events, callers, started>>
    /\ UNCHANGED <<botVars, storeVars, plugins_arg, clearing, mailVars>>

\* while not self._event.is_set(): if countdown == 0: ... else: countdown -= 1
WorkerTest(t) ==
    /\ threads[t].pc = "check"
    /\ threads' = [threads EXCEPT ![t] = LoopTest(threads[t], events[_event])]
    /\ UNCHANGED <<_thread, _event, events, callers, started>>
    /\ UNCHANGED <<botVars, storeVars, plugins_arg, clearing, mailVars>>

\* do_job() returns or raises
WorkerJob(t, raised) ==
    /\ threads[t].pc = "job"
    /\ threads' = [threads EXCEPT ![t] = AfterJob(threads[t], raised)]
    /\ UNCHANGED <<_thread, _event, events, callers, started>>
    /\ UNCHANGED <<botVars, storeVars, plugins_arg, clearing, mailVars>>

\* time.sleep(1) returns
WorkerSleep(t) ==
    /\ threads[t].pc = "sleep"
    /\ threads' = [threads EXCEPT ![t].pc = "check",
                                  ![t].since = IF @ < 0 THEN @ ELSE @ + 1]
    /\ UNCHANGED <<_thread, _event, events, callers, started>>
    /\ UNCHANGED <<botVars, storeVars, plugins_arg, clearing, mailVars>>

\* after the loop: on_stop(), and the thread ends, its locals with it
WorkerOnStop(t) ==
    /\ threads[t].pc = "on_stop"
    /\ threads' = [threads EXCEPT ![t] = [Unborn EXCEPT !.pc = "dead",
                                                         !.asked = threads[t].asked,
                                                         !.stops = threads[t].stops + 1]]
    /\ UNCHANGED <<_thread, _event, events, callers, started>>
    /\ UNCHANGED <<botVars, storeVars, plugins_arg, clearing, mailVars>>

\* a step of the thread t
WorkerStep(t) ==
    \/ WorkerBegin(t)
    \/ WorkerTest(t)
    \/ \E raised \in BOOLEAN : WorkerJob(t, raised)
    \/ WorkerSleep(t)
    \/ WorkerOnStop(t)

\* a ThreadedPlugin of its own: nothing started, nothing stored
InitWorker == InitStorage

NextWorker ==
    \/ \E c \in Contexts, interval \in Intervals : StartWorkerTest(c, interval)
    \/ \E c \in Contexts : StartWorkerEvent(c)
    \/ \E c \in Contexts : StartWorkerThread(c)
    \/ StopWorker
    \/ \E t \in 1..MaxThreads : WorkerBegin(t)
    \/ \E t \in 1..MaxThreads : WorkerTest(t)
    \/ \E t \in 1..MaxThreads, raised \in BOOLEAN : WorkerJob(t, raised)
    \/ \E t \in 1..MaxThreads : WorkerSleep(t)
    \/ \E t \in 1..MaxThreads : WorkerOnStop(t)

SpecWorker == InitWorker /\ [][NextWorker]_vars

\* every started thread is scheduled again and again: the interpreter
\* switches between threads, sleep(1) returns, do_job comes to an end
SpecWorkerFair == SpecWorker /\ \A t \in 1..MaxThreads : WF_vars(WorkerStep(t))

\* the threads that have not left the loop of _worker
ActiveLoops == {t \in 1..MaxThreads : threads[t].pc \in {"begin", "check", "job", "sleep"}}

\* C12: calls of start_worker with no stop_worker in between, one after the
\* other or at the same time from two contexts, leave at most one worker
\* loop active.
C12_SingleLoop ==
    (\A e \in 1..Len(events) : ~events[e]) => Cardinality(ActiveLoops) <= 1

(***************************************************************************)
(* The worker loop: an exception of do_job, stop_worker, the period.       *)
(***************************************************************************)
\* C13: when do_job raises, the exception is caught: the loop goes on to
\* its sleep with countdown = interval and on_stop is not run; a thread whose
\* do_job raised leaves the loop only after stop_worker was called; and as
\* long as stop_worker is not called, do_job is entered again.
C13_JobRaises ==
    /\ [][\A t \in 1..MaxThreads :
            (threads[t].pc = "job" /\ threads'[t].pc # "job" /\ threads'[t].failed) =>
                /\ threads'[t].pc = "sleep"
                /\ threads'[t].countdown = threads[t].interval
                /\ threads'[t].stops = threads[t].stops]_vars
    /\ [](\A t \in 1..MaxThreads :
            (threads[t].failed /\ ~threads[t].asked) =>
                threads[t].pc \in {"sleep", "check", "job"})
    /\ \A t \in 1..MaxThreads :
          (threads[t].failed /\ threads[t].pc = "sleep")
              ~> (threads[t].pc = "job" \/ threads[t].asked)

\* do_job is entered again after a do_job that raised, with no stop_worker
C13_Witness ==
    \E t \in 1..MaxThreads :
        /\ threads[t].failed
        /\ threads[t].pc = "job"
        /\ ~threads[t].asked

\* C14: after stop_worker was called while a worker was running, the loop
\* sees the flag at its next test of the while condition and leaves: it
\* enters no further do_job and no further sleep; on_stop runs once, and the
\* thread is over when it has run.
C14_StopObserved ==
    /\ [][\A t \in 1..MaxThreads :
            (threads[t].pc = "check" /\ threads[t].asked /\ threads'[t].pc # "check") =>
                threads'[t].pc = "on_stop"]_vars
    /\ [](\A t \in 1..MaxThreads :
            /\ threads[t].stops <= 1
            /\ threads[t].pc = "dead" => threads[t].stops = 1)

(***************************************************************************)
(* The answer of the help command.                                         *)
(***************************************************************************)
\* the text after the header, cut at its line breaks
RECURSIVE SplitLines(_)
SplitLines(text) ==
    IF text = <<>> THEN <<>>
    ELSE LET rest == Tail(text)
             ends == {k \in 1..Len(rest) : rest[k] = "\n"}
             stop == IF ends = {} THEN Len(rest) + 1 ELSE Min(ends)
         IN  <<SubSeq(rest, 1, stop - 1)>> \o SplitLines(SubSeq(rest, stop, Len(rest)))

\* the line the claim gives a binding: the pattern, then the dash and the
\* docstring when the handler has one
ClaimedLine(binding) ==
    IF MethodOf(binding.callback).doc # <<>>
    THEN binding.pattern \o <<" ", "-", " ">> \o MethodOf(binding.callback).doc
    ELSE binding.pattern

\* the same line behind two spaces
IndentedLine(binding) == <<" ", " ">> \o ClaimedLine(binding)

\* how often x occurs in the sequence
Count(seq, x) == Cardinality({i \in 1..Len(seq) : seq[i] = x})

\* the step is a dispatch to the help binding
HelpDispatched ==
    /\ Dispatched
    /\ dispatch'.invoked # <<>>
    /\ patterns[dispatch'.invoked[1]].callback.cls = "HelpPlugin"

\* the one response of the step is the header and then the lines Line gives
\* the bindings of bot.patterns, one for each binding, in ascending order
HelpAnswer(Line(_)) ==
    /\ Len(dispatch'.responses) = 1
    /\ dispatch'.responses[1].text = "I support following commands:{0}"
    /\ LET lines == SplitLines(dispatch'.responses[1].arg)
       IN  /\ Len(lines) = Len(patterns)
           /\ \A i \in 1..Len(patterns) :
                 Count(lines, Line(patterns[i])) =
                     Cardinality({j \in 1..Len(patterns) :
                                     Line(patterns[j]) = Line(patterns[i])})
           /\ \A k \in 1..(Len(lines) - 1) : ~LexLess(lines[k + 1], lines[k])

\* C15 as claimed: a request dispatched to the help binding gets one
\* response: the header, then one line for each binding of bot.patterns, the
\* line being the pattern followed by the dash and the docstring (the pattern
\* alone without a docstring), the lines in ascending order.
C15_HelpLines == [][HelpDispatched => HelpAnswer(ClaimedLine)]_vars

\* C15: a request dispatched to the help binding gets one response: the
\* header, then one line for each binding of bot.patterns, the line being two
\* spaces, the pattern and, when the handler has a docstring, the dash and
\* the docstring; the lines are in ascending order.
C15_HelpIndented == [][HelpDispatched => HelpAnswer(IndentedLine)]_vars

\* help answered for three bindings or more whose sorted lines are not in
\* the order of bot.patterns
C15_Witness ==
    /\ dispatch.invoked # <<>>
    /\ dispatch.invoked[1] <= Len(patterns)
    /\ patterns[dispatch.invoked[1]].callback.cls = "HelpPlugin"
    /\ Len(patterns) >= 3
    /\ Len(dispatch.responses) = 1
    /\ SplitLines(dispatch.responses[1].arg) #
          [i \in 1..Len(patterns) |-> IndentedLine(patterns[i])]

(***************************************************************************)
(* Several Bots constructed from one plugins list.                         *)
(***************************************************************************)
\* the Bots whose construction has begun: each appended HelpPlugin to the list
BotsBegun == Len(plugin_classes) - Len(plugins_arg)

\* Bot(adapters=..., plugins=plugins) once more, plugins being the list
\* object the Bot before was given, over the same storage file
BotInitAgain ==
    /\ ctor = "done"
    /\ BotsBegun < MaxBots
    /\ ctor' = "prepare"
    /\ adapters' = <<>>
    /\ plugins' = <<>>
    /\ patterns' = <<>>
    /\ exiting' = FALSE
    /\ dispatch' = NoDispatch
    /\ views' = <<>>
    /\ UNCHANGED <<plugin_classes, adapter_classes, shelve, writer, last>>
    /\ UNCHANGED otherVars

NextBots ==
    \/ BotInitPrepare
    \/ BotInitAdapter
    \/ BotInitPlugin
    \/ BotInitAgain

SpecBots == InitBot /\ [][NextBots]_vars

\* the bindings of the classes of a list, class after class
RECURSIVE AllCallbacks(_)
AllCallbacks(classes) ==
    IF classes = <<>> THEN <<>>
    ELSE GetCallbacks(Head(classes)) \o AllCallbacks(Tail(classes))

\* C16: a constructed Bot that was configured with n plugin classes holds
\* n + 1 plugins, the configured ones in their order and HelpPlugin last, and
\* bot.patterns is their bindings in that order with the help binding last;
\* also for a Bot constructed from a list an earlier Bot was constructed from.
C16_PluginsThenHelp ==
    ctor = "done" =>
        /\ Len(plugins) = Len(plugins_arg) + 1
        /\ [i \in 1..Len(plugins) |-> plugins[i].cls] = Append(plugins_arg, "HelpPlugin")
        /\ patterns = AllCallbacks(Append(plugins_arg, "HelpPlugin"))

(***************************************************************************)
(* The order of the bindings of one plugin.                                *)
(***************************************************************************)
\* the place of a binding's method in the body of its class
DeclIndex(binding) ==
    CHOOSE i \in 1..Len(ClassOf(binding.callback.cls).methods) :
        ClassOf(binding.callback.cls).methods[i].name = binding.callback.method

\* the place of a binding's pattern among the route annotations of its
\* method, counted from the top
WrittenIndex(binding) ==
    CHOOSE k \in 1..Len(MethodOf(binding.callback).routes) :
        MethodOf(binding.callback).routes[k] = binding.pattern

\* the pairs i < j of bot.patterns that come from one plugin
SamePlugin(i, j) == i < j /\ patterns[i].callback.cls = patterns[j].callback.cls

\* C17 as claimed: the bindings of a plugin are in declaration order: methods
\* as the class declares them, the patterns of one method as its route
\* annotations are written.
C17_DeclarationOrder ==
    \A i, j \in 1..Len(patterns) :
        SamePlugin(i, j) =>
            \/ DeclIndex(patterns[i]) < DeclIndex(patterns[j])
            \/ /\ DeclIndex(patterns[i]) = DeclIndex(patterns[j])
               /\ WrittenIndex(patterns[i]) < WrittenIndex(patterns[j])

\* C17: the bindings of a plugin are in the order of the names of its
\* methods, ascending, and the patterns of one method are in the reverse of
\* the order its route annotations are written.
C17_NameOrder ==
    \A i, j \in 1..Len(patterns) :
        SamePlugin(i, j) =>
            \/ LexLess(patterns[i].callback.method, patterns[j].callback.method)
            \/ /\ patterns[i].callback.method = patterns[j].callback.method
               /\ WrittenIndex(patterns[i]) > WrittenIndex(patterns[j])

\* a Bot is constructed whose bindings have a plugin's methods out of their
\* declaration order and a method's patterns out of their written order
C17_Witness ==
    /\ ctor = "done"
    /\ \E i, j \in 1..Len(patterns) :
          SamePlugin(i, j) /\ DeclIndex(patterns[i]) > DeclIndex(patterns[j])
    /\ \E i, j \in 1..Len(patterns) :
          /\ SamePlugin(i, j)
          /\ DeclIndex(patterns[i]) = DeclIndex(patterns[j])
          /\ WrittenIndex(patterns[i]) > WrittenIndex(patterns[j])

(***************************************************************************)
(* Storage.clear step by step: self.keys() gives a list, then the loop     *)
(* deletes its keys from the backing map one at a time, and other contexts *)
(* run between the steps.  Nothing in Storage takes a lock.                *)
(***************************************************************************)
\* del self._shelve[key]: the backing map raises KeyError for a missing key
ShelveDel(_shelve, key) ==
    IF key \in DOMAIN _shelve
    THEN [raised |-> "None", shelve |-> Without(_shelve, {key})]
    ELSE [raised |-> "KeyError", shelve |-> _shelve]

\* storage.clear() up to the list of keys it is going to delete
ClearBegin(c, v) ==
    /\ clearing[c].pc = "idle"
    /\ clearing' = [clearing EXCEPT ![c] =
                       IF StorageKeys(shelve, views[v].prefix) = {}
                       THEN NotClearing
                       ELSE [pc |-> "deleting", view |-> v,
                             todo |-> StorageKeys(shelve, views[v].prefix),
                             raised |-> "None"]]
    /\ UNCHANGED <<plugins_arg, workerVars, mailVars>>
    /\ UNCHANGED <<botVars, storeVars>>

\* one turn of the loop of clear: del self._shelve[key]; the call is over
\* when the statement raises or the list is at its end
ClearDelete(c, key) ==
    /\ clearing[c].pc = "deleting"
    /\ key \in clearing[c].todo
    /\ LET del == ShelveDel(shelve, key)
       IN  /\ shelve' = del.shelve
           /\ writer' = Without(writer, DOMAIN shelve \ DOMAIN del.shelve)
           /\ clearing' = [clearing EXCEPT ![c] =
                  IF del.raised # "None"
                  THEN [NotClearing EXCEPT !.raised = del.raised]
                  ELSE IF clearing[c].todo = {key}
                       THEN NotClearing
                       ELSE [@ EXCEPT !.todo = @ \ {key}]]
    /\ UNCHANGED <<views, last>>
    /\ UNCHANGED <<plugins_arg, workerVars, mailVars>>
    /\ UNCHANGED botVars

\* storage = Storage(filename) and storage.with_prefix('t') on it
InitClearing ==
    /\ ctor = "none"
    /\ plugin_classes = <<>>
    /\ adapter_classes = <<>>
    /\ adapters = <<>>
    /\ plugins = <<>>
    /\ patterns = <<>>
    /\ exiting = FALSE
    /\ dispatch = NoDispatch
    /\ shelve = EmptyMap
    /\ views = <<RootView, SubView(<<RootView>>, 1, <<"t">>)>>
    /\ writer = EmptyMap
    /\ last = NoOp
    /\ plugins_arg = <<>>
    /\ WorkerIdle
    /\ ClearIdle
    /\ MailIdle

NextClearing ==
    \/ \E v \in 1..Len(views), name \in Names : SetItem(v, name, "minor")
    \/ \E c \in Contexts, v \in 1..Len(views) : ClearBegin(c, v)
    \/ \E c \in Contexts, key \in UNION {clearing[d].todo : d \in Contexts} :
          ClearDelete(c, key)

SpecClearing == InitClearing /\ [][NextClearing]_vars

\* C18: clear() run by two contexts at the same time over overlapping keys,
\* or at the same time as a set of a key of its namespace, never raises.
C18_ClearSafe == \A c \in Contexts : clearing[c].raised = "None"

(***************************************************************************)
(* The order of the steps of Bot.__init__.                                 *)
(***************************************************************************)
\* C19: the Storage exists before any plugin or adapter does, and an adapter
\* is constructed or started only when every plugin of the Bot exists.
C19_PluginsBeforeAdapters ==
    /\ (Len(plugins) > 0 \/ Len(adapters) > 0) => views # <<>>
    /\ Len(adapters) > 0 =>
          /\ ctor # "prepare"
          /\ Len(plugins) = Len(plugin_classes)

(***************************************************************************)
(* The period of do_job.                                                   *)
(***************************************************************************)
\* C20: a worker started with interval N enters do_job again after exactly
\* N sleeps of one second since it entered do_job the last time.
C20_EachInterval ==
    \A t \in 1..MaxThreads :
        threads[t].gap >= 0 => threads[t].gap = threads[t].interval

(***************************************************************************)
(* start_worker after stop_worker.                                         *)
(***************************************************************************)
\* C21: once a call of start_worker has returned, with no stop_worker since
\* it began and no other start_worker in progress, a worker loop is there to
\* run do_job: the start is not lost, also when it came before the loop that
\* stop_worker cancelled had seen the flag.
C21_StartNotLost ==
    (started /\ Starting = {}) => ActiveLoops # {}

(***************************************************************************)
(* Dispatch while Bot.__init__ is still running.                           *)
(***************************************************************************)
\* C22: every request an adapter delivers is matched against the bindings
\* of all the plugins of the Bot, the help binding included, and bot.patterns
\* does not change once an adapter is started and can deliver a request.
C22_CompleteBindings ==
    [][/\ Dispatched => patterns = AllCallbacks(Append(plugins_arg, "HelpPlugin"))
       /\ Len(adapters) > 0 => patterns' = patterns]_vars

(***************************************************************************)
(* The mail adapter, src/thebot/batteries/mail.py: Adapter.start begins a  *)
(* thread that runs _fetch_messages.  A message of the mailbox has a uid,  *)
(* plain (it has a text/plain part) and text (the payload of that part).   *)
(* The From header is taken to be well formed.                             *)
(***************************************************************************)
\* the characters of a body: a letter of a command, a blank, a line break
MailChars == {"s", " ", "\n"}

\* the bodies a message has
MailBodies ==
    {[plain |-> FALSE, text |-> <<>>]} \cup
    {[plain |-> TRUE, text |-> x] : x \in StringsOver(MailChars, 0, MaxTextLen)}

\* the mailboxes the adapter finds, made of the bodies: the uid of a message
\* is its place
MailboxesOf(bodies) ==
    UNION {{[i \in 1..n |-> [uid |-> i, plain |-> b[i].plain, text |-> b[i].text]] :
               b \in [1..n -> bodies]} : n \in 1..MaxMails}

\* text.split('\n')
RECURSIVE Split(_)
Split(text) ==
    LET ends == {k \in 1..Len(text) : text[k] = "\n"}
    IN  IF ends = {} THEN <<text>>
        ELSE <<SubSeq(text, 1, Min(ends) - 1)>>
                 \o Split(SubSeq(text, Min(ends) + 1, Len(text)))

\* line.strip()
RECURSIVE Strip(_)
Strip(line) ==
    IF line = <<>> THEN line
    ELSE IF Head(line) = " " THEN Strip(Tail(line))
    ELSE IF line[Len(line)] = " " THEN Strip(SubSeq(line, 1, Len(line) - 1))
    ELSE line

\* list(filter(None, (line.strip() for line in text.split('\n'))))
NonEmptyLines(text) ==
    SelectSeq([i \in 1..Len(Split(text)) |-> Strip(Split(text)[i])],
              LAMBDA line : line # <<>>)

\* the keyword arguments Bot.on_request takes besides the request
OnRequestKeywords == {}

\* the keyword arguments _fetch_messages passes to self.callback
MailKeywords == {"direct"}

\* what the body of the for loop does with one message: the request it
\* makes (none when it makes none), whether the callback took the call,
\* what on_request did then, what was raised, whether the message is deleted
MailHandle(message, _patterns) ==
    IF ~message.plain
    THEN [accepted |-> FALSE, request |-> NoDispatch.request, result |-> NoDispatch,
          raised |-> "None", logged |-> TRUE, deleted |-> FALSE]
    ELSE IF NonEmptyLines(message.text) = <<>>
    THEN [accepted |-> FALSE, request |-> NoDispatch.request, result |-> NoDispatch,
          raised |-> "IndexError", logged |-> TRUE, deleted |-> FALSE]
    ELSE LET request == Request(NonEmptyLines(message.text)[1])
         IN  IF ~(MailKeywords \subseteq OnRequestKeywords)
             THEN [accepted |-> FALSE, request |-> request, result |-> NoDispatch,
                   raised |-> "TypeError", logged |-> TRUE, deleted |-> FALSE]
             ELSE LET result == [request |-> request]
                                    @@ RouteFrom(_patterns, request.message, 1)
                  IN  [accepted |-> TRUE, request |-> request, result |-> result,
                       raised |-> result.raised,
                       logged |-> result.raised # "None",
                       deleted |-> result.raised = "None"]

\* the message of the mailbox with the uid
MessageOf(uid) == mailbox[CHOOSE i \in 1..Len(mailbox) : mailbox[i].uid = uid]

\* Adapter.start: the thread begins _fetch_messages
MailStart ==
    /\ Len(adapters) > 0
    /\ fetching.pc = "unborn"
    /\ fetching' = [pc |-> "search", uids |-> <<>>]
    /\ UNCHANGED <<mailbox, delivered, maillog>>
    /\ UNCHANGED <<botVars, storeVars, plugins_arg, workerVars, clearing>>

\* with self.get_imap() as imap, and the search of imap.fetch_messages()
MailSearch ==
    /\ fetching.pc = "search"
    /\ fetching' = [pc |-> "loop", uids |-> [i \in 1..Len(mailbox) |-> mailbox[i].uid]]
    /\ UNCHANGED <<mailbox, delivered, maillog>>
    /\ UNCHANGED <<botVars, storeVars, plugins_arg, workerVars, clearing>>

\* one turn of the for loop: the try statement with the next message
MailProcess ==
    /\ fetching.pc = "loop"
    /\ fetching.uids # <<>>
    /\ LET uid == Head(fetching.uids)
           done == MailHandle(MessageOf(uid), patterns)
       IN  /\ fetching' = [fetching EXCEPT !.uids = Tail(fetching.uids)]
           /\ mailbox' = IF done.deleted
                         THEN SelectSeq(mailbox, LAMBDA m : m.uid # uid)
                         ELSE mailbox
           /\ delivered' = IF done.accepted
                           THEN Append(delivered, [uid |-> uid, request |-> done.request])
                           ELSE delivered
           /\ maillog' = IF done.logged THEN maillog \cup {uid} ELSE maillog
           /\ dispatch' = IF done.accepted THEN done.result ELSE dispatch
    /\ UNCHANGED <<ctor, plugin_classes, adapter_classes, adapters, plugins, patterns, exiting>>
    /\ UNCHANGED <<storeVars, plugins_arg, workerVars, clearing>>

\* the for loop is over: time.sleep(5), and the while loop goes round
MailSleep ==
    /\ fetching.pc = "loop"
    /\ fetching.uids = <<>>
    /\ fetching' = [pc |-> "search", uids |-> <<>>]
    /\ UNCHANGED <<mailbox, delivered, maillog>>
    /\ UNCHANGED <<botVars, storeVars, plugins_arg, workerVars, clearing>>

\* Bot(adapters=[mail.Adapter], plugins=[TestPlugin]) and a mailbox with messages
InitMail ==
    /\ ctor = "prepare"
    /\ plugin_classes = <<"TestPlugin">>
    /\ adapter_classes = <<"MailAdapter">>
    /\ adapters = <<>>
    /\ plugins = <<>>
    /\ patterns = <<>>
    /\ exiting = FALSE
    /\ dispatch = NoDispatch
    /\ shelve = EmptyMap
    /\ views = <<>>
    /\ writer = EmptyMap
    /\ last = NoOp
    /\ plugins_arg = plugin_classes
    /\ WorkerIdle
    /\ ClearIdle
    /\ mailbox \in MailboxesOf(MailBodies)
    /\ fetching = NotFetching
    /\ delivered = <<>>
    /\ maillog = {}

NextMail ==
    \/ BotInitPrepare
    \/ BotInitAdapter
    \/ BotInitPlugin
    \/ MailStart
    \/ MailSearch
    \/ MailProcess
    \/ MailSleep

SpecMail == InitMail /\ [][NextMail]_vars

\* the step is a turn of the for loop with a message whose text/plain body
\* has a non-empty line
MailTurn ==
    /\ fetching.pc = "loop"
    /\ fetching.uids # <<>>
    /\ fetching'.uids = Tail(fetching.uids)
    /\ MessageOf(Head(fetching.uids)).plain
    /\ NonEmptyLines(MessageOf(Head(fetching.uids)).text) # <<>>

\* C23: a turn of the polling loop with a message that has a non-empty
\* text/plain body hands Bot.on_request a request whose message is the first
\* non-empty line, the call succeeds, and the message is deleted from the
\* mailbox; no message is delivered twice.
C23_MailDelivered ==
    /\ [][MailTurn =>
            /\ delivered' = Append(delivered,
                  [uid |-> Head(fetching.uids),
                   request |-> Request(NonEmptyLines(MessageOf(Head(fetching.uids)).text)[1])])
            /\ Head(fetching.uids) \notin maillog'
            /\ \A i \in 1..Len(mailbox') : mailbox'[i].uid # Head(fetching.uids)]_vars
    /\ [](\A i, j \in 1..Len(delivered) : delivered[i].uid = delivered[j].uid => i = j)

====
